---- MODULE Spec2Model ----
(***************************************************************************)
(* fast-near: the view-call sandbox.                                       *)
(*   src/worker-pool.js  WorkerPool: the orchestrator thread               *)
(*   src/worker.js       the worker thread: the host import table, runWASM *)
(*                                                                         *)
(* Spec      the pool with its worker threads, ports, timers and the       *)
(*           storage client's answers                                      *)
(* HostSpec  one call inside one worker: the guest against the import      *)
(*           table, its linear memory, registers, logs and result          *)
(***************************************************************************)
EXTENDS Integers, Sequences, FiniteSets, TLC

(* ------------------------------ bounds --------------------------------- *)
\* numThreads handed to the WorkerPool constructor
NumThreads == 1
\* worker threads the pool may create in one run (first ones and replacements)
MaxWorkers == 3
\* runContract calls made in one run
MaxCalls == 3
\* host calls one guest method makes in the pool specification
MaxGuestCalls == 2
\* highest register id a guest uses
MaxReg == 1

(* ------------------------------ values --------------------------------- *)
\* undefined / null, and a present value
None == <<>>
Some(x) == <<x>>

WorkerIds == 1..MaxWorkers
Callers == 1..MaxCalls
RegIds == 0..MaxReg

\* the string `${contractId}:` ends with this character
Colon == 58
\* U+FFFD, what a decoder puts in place of a malformed sequence
ReplacementChar == 65533

\* a u64 as four 16-bit limbs, most significant first (BigInt(n) for a small n)
U64(n) == <<0, 0, 0, n>>
MAX_U64 == <<65535, 65535, 65535, 65535>>

\* Buffer.from(string): the UTF-8 encoding of a string of code points < 2048
RECURSIVE utf8Encode(_)
utf8Encode(s) ==
    IF s = <<>> THEN <<>>
    ELSE LET c == Head(s)
         IN (IF c < 128 THEN <<c>> ELSE <<192 + (c \div 64), 128 + (c % 64)>>)
            \o utf8Encode(Tail(s))

\* buf.toString('utf8'): one- and two-byte sequences, U+FFFD for a malformed byte
RECURSIVE utf8Decode(_)
utf8Decode(b) ==
    IF b = <<>> THEN <<>>
    ELSE LET x == Head(b)
         IN IF x < 128 THEN <<x>> \o utf8Decode(Tail(b))
            ELSE IF /\ x >= 194 /\ x <= 223 /\ Len(b) >= 2
                    /\ b[2] >= 128 /\ b[2] <= 191
                 THEN <<(x - 192) * 64 + (b[2] - 128)>> \o utf8Decode(Tail(Tail(b)))
                 ELSE <<ReplacementChar>> \o utf8Decode(Tail(b))

\* new Error(message); a message is the tuple of the parts of its template
Error(message) == [name |-> "Error", message |-> message]
TypeError(message) == [name |-> "TypeError", message |-> message]
RangeError(message) == [name |-> "RangeError", message |-> message]

(* --------------------------- the guest module -------------------------- *)
\* the linear memory a compiled module starts with
ModuleMemory(wasmModule) ==
    CASE wasmModule = "m1" -> <<104, 105, 0, 0>>
      [] wasmModule = "m2" -> <<107, 0, 200, 0, 0, 0>>
      [] OTHER -> <<0, 0, 0, 0>>

\* the arguments of the call a caller makes
CallArgs(c) ==
    [blockHeight |-> c,
     wasmModule  |-> IF c % 2 = 1 THEN "m1" ELSE "m2",
     contractId  |-> IF c % 2 = 1 THEN <<97>> ELSE <<98, 233>>,
     methodName  |-> IF c % 3 = 1 THEN "get" ELSE "list",
     methodArgs  |-> IF c % 2 = 1 THEN <<>> ELSE <<123, 125>>]

(* ------------------- the host runtime (src/worker.js) ------------------ *)
\* a property of an object: undefined when the object has no such field
Prop(obj, field) == IF field \in DOMAIN obj THEN Some(obj[field]) ELSE None

\* new Uint8Array(buffer, ptr, len): in range only inside the buffer
InRange(mem, ptr, len) == ptr + len <= Len(mem)
View(mem, ptr, len) == SubSeq(mem, ptr + 1, ptr + len)

\* mem.slice(start, end): both ends clamped to the buffer
Min(a, b) == IF a < b THEN a ELSE b
Slice(mem, start, end) == SubSeq(mem, Min(start, Len(mem)) + 1, Min(end, Len(mem)))

\* mem.set(bytes, ptr) for bytes that fit
SetBytes(mem, bytes, ptr) ==
    [i \in 1..Len(mem) |->
        IF i > ptr /\ i <= ptr + Len(bytes) THEN bytes[i - ptr] ELSE mem[i]]

\* the outcome of a host call: the context after it, the value it returns,
\* the error it throws; or it never returns (a loop without exit)
Returns(ctx, ret) == [ctx |-> ctx, ret |-> ret, thrown |-> None, diverges |-> FALSE]
Throws(ctx, err) == [ctx |-> ctx, ret |-> None, thrown |-> Some(err), diverges |-> FALSE]
Diverges(ctx) == [ctx |-> ctx, ret |-> None, thrown |-> None, diverges |-> TRUE]

\* new Uint16Array(buffer)[i]: the 16-bit unit at index i, little endian;
\* undefined past the end and for an index that is no integer
Uint16At(mem, i) ==
    IF 2 * i + 2 <= Len(mem) THEN Some(mem[2 * i + 1] + 256 * mem[2 * i + 2]) ELSE None

\* Uint16Array.from(arr).buffer: the bytes of the units, little endian
RECURSIVE utf16leBytes(_)
utf16leBytes(arr) ==
    IF arr = <<>> THEN <<>>
    ELSE <<Head(arr) % 256, Head(arr) \div 256>> \o utf16leBytes(Tail(arr))

\* buf.toString('ucs2'): the string of the 16-bit units of the bytes
RECURSIVE ucs2Decode(_)
ucs2Decode(b) ==
    IF Len(b) < 2 THEN <<>>
    ELSE <<b[1] + 256 * b[2]>> \o ucs2Decode(Tail(Tail(b)))

\* the while loop of readUTF16CStr from index i on: the units up to the first
\* zero unit. mem[i] is undefined past the end of the memory, and undefined != 0
\* holds, so the loop that runs off the end never exits.
RECURSIVE ScanUnits(_, _)
ScanUnits(mem, i) ==
    LET u == Uint16At(mem, i)
    IN IF u = None THEN None
       ELSE IF u[1] = 0 THEN Some(<<>>)
       ELSE LET rest == ScanUnits(mem, i + 1)
            IN IF rest = None THEN None ELSE Some(<<u[1]>> \o rest[1])

\* readUTF16CStr(ptr): the decoded string; None when the loop never exits.
\* ptr = Number(ptr) / 2 is no integer for an odd ptr: every mem[ptr] is then
\* undefined and the loop never exits either.
readUTF16CStr(mem, ptr) ==
    IF ptr % 2 = 1 THEN None
    ELSE LET arr == ScanUnits(mem, ptr \div 2)
         IN IF arr = None THEN None ELSE Some(ucs2Decode(utf16leBytes(arr[1])))

notImplemented(name) == Error(<<"method not implemented: ", name>>)
\* (mutant) prohibitedInView throwing the error of notImplemented
prohibitedInView_asNotImplemented(name) == Error(<<"method not implemented: ", name>>)
prohibitedInView(name) == Error(<<"method not available for view calls: ", name>>)

\* the env object of imports(ctx), entry by entry in source order: the name and
\* what it is bound to
ImportTable ==
    << <<"register_len", "function">>,
       <<"read_register", "function">>,
       <<"current_account_id", "function">>,
       <<"signer_account_id", "prohibitedInView">>,
       <<"signer_account_pk", "prohibitedInView">>,
       <<"predecessor_account_id", "prohibitedInView">>,
       <<"input", "function">>,
       <<"block_index", "function">>,
       <<"block_timestamp", "notImplemented">>,
       <<"epoch_height", "notImplemented">>,
       <<"storage_usage", "notImplemented">>,
       <<"account_balance", "notImplemented">>,
       <<"account_locked_balance", "notImplemented">>,
       <<"attached_deposit", "prohibitedInView">>,
       <<"prepaid_gas", "prohibitedInView">>,
       <<"used_gas", "prohibitedInView">>,
       <<"random_seed", "notImplemented">>,
       <<"sha256", "notImplemented">>,
       <<"keccak256", "notImplemented">>,
       <<"keccak512", "notImplemented">>,
       <<"value_return", "function">>,
       <<"panic", "function">>,
       <<"panic_utf8", "function">>,
       <<"abort", "function">>,
       <<"log_utf8", "function">>,
       <<"log_utf16", "function">>,
       <<"promise_create", "prohibitedInView">>,
       <<"promise_then", "prohibitedInView">>,
       <<"promise_and", "prohibitedInView">>,
       <<"promise_batch_create", "prohibitedInView">>,
       <<"promise_batch_then", "prohibitedInView">>,
       <<"promise_batch_action_create_account", "prohibitedInView">>,
       <<"promise_batch_action_deploy_contract", "prohibitedInView">>,
       <<"promise_batch_action_function_call", "prohibitedInView">>,
       <<"promise_batch_action_transfer", "prohibitedInView">>,
       <<"promise_batch_action_stake", "prohibitedInView">>,
       <<"promise_batch_action_add_key_with_full_access", "prohibitedInView">>,
       <<"promise_batch_action_add_key_with_function_call", "prohibitedInView">>,
       <<"promise_batch_action_delete_key", "prohibitedInView">>,
       <<"promise_batch_action_delete_account", "prohibitedInView">>,
       <<"promise_results_count", "prohibitedInView">>,
       <<"promise_result", "prohibitedInView">>,
       <<"promise_return", "prohibitedInView">>,
       <<"storage_write", "prohibitedInView">>,
       <<"storage_read", "function">>,
       <<"storage_remove", "prohibitedInView">>,
       <<"storage_has_key", "notImplemented">>,
       <<"validator_stake", "notImplemented">>,
       <<"validator_total_stake", "notImplemented">> >>

ImportNames == {ImportTable[i][1] : i \in 1..Len(ImportTable)}

\* the env object: in an object literal the last entry of a name wins
Env ==
    [name \in ImportNames |->
        LET at == {i \in 1..Len(ImportTable) : ImportTable[i][1] = name}
            last == CHOOSE i \in at : \A j \in at : j <= i
        IN ImportTable[last][2]]

\* what env[name] is bound to
Binding(name) == Env[name]

\* (mutant) register_len testing the length of the register, not the register
register_len_emptyIsUnset(ctx, register_id) ==
    Returns(ctx, Some(IF ctx.registers[register_id] # None
                         /\ Len(ctx.registers[register_id][1]) # 0
                      THEN U64(Len(ctx.registers[register_id][1]))
                      ELSE MAX_U64))

register_len(ctx, register_id) ==
    Returns(ctx, Some(IF ctx.registers[register_id] # None
                      THEN U64(Len(ctx.registers[register_id][1]))
                      ELSE MAX_U64))

read_register(ctx, register_id, ptr) ==
    LET bytes == IF ctx.registers[register_id] # None
                 THEN ctx.registers[register_id][1] ELSE <<>>
    IN IF InRange(ctx.memory, ptr, Len(bytes))
       THEN Returns([ctx EXCEPT !.memory = SetBytes(@, bytes, ptr)], None)
       ELSE Throws(ctx, RangeError(<<"offset is out of bounds">>))

current_account_id(ctx, register_id) ==
    LET id == Prop(ctx, "contract_id")
    IN IF id = None
       THEN Throws(ctx, TypeError(<<"The first argument must be of type string or an instance of Buffer">>))
       ELSE Returns([ctx EXCEPT !.registers[register_id] = Some(utf8Encode(id[1]))], None)

input(ctx, register_id) ==
    Returns([ctx EXCEPT !.registers[register_id] = Some(ctx.methodArgs)], None)

block_index(ctx) == Returns(ctx, Some(U64(ctx.blockHeight)))

\* (mutant) value_return keeping the bytes of the first call
value_return_firstWins(ctx, value_len, value_ptr) ==
    IF ctx.result # None THEN Returns(ctx, None)
    ELSE Returns([ctx EXCEPT !.result =
                      Some(Slice(ctx.memory, value_ptr, value_ptr + value_len))], None)

value_return(ctx, value_len, value_ptr) ==
    Returns([ctx EXCEPT !.result =
                 Some(Slice(ctx.memory, value_ptr, value_ptr + value_len))], None)

panic(ctx) == Throws(ctx, Error(<<"panic: explicit guest panic">>))

panic_utf8(ctx, len, ptr) ==
    IF InRange(ctx.memory, ptr, len)
    THEN Throws(ctx, Error(<<"panic: ", utf8Decode(View(ctx.memory, ptr, len))>>))
    ELSE Throws(ctx, RangeError(<<"Invalid typed array length">>))

abort(ctx, msg_ptr, filename_ptr, line, col) ==
    LET msg == readUTF16CStr(ctx.memory, msg_ptr)
        filename == IF msg = None THEN None ELSE readUTF16CStr(ctx.memory, filename_ptr)
    IN IF msg = None \/ filename = None
       THEN Diverges(ctx)
       ELSE Throws(ctx, Error(<<"abort: ", msg[1], " ", filename[1], ":", line, ":", col>>))

log_utf8(ctx, len, ptr) ==
    IF InRange(ctx.memory, ptr, len)
    THEN Returns([ctx EXCEPT !.logs = Append(@, utf8Decode(View(ctx.memory, ptr, len)))], None)
    ELSE Throws(ctx, RangeError(<<"Invalid typed array length">>))

\* toString('utf16'): an empty buffer gives '' before the encoding is looked
\* up; for any other, Buffer knows no encoding of that name
log_utf16(ctx, len, ptr) ==
    IF ~InRange(ctx.memory, ptr, len)
    THEN Throws(ctx, RangeError(<<"Invalid typed array length">>))
    ELSE IF len = 0
    THEN Returns([ctx EXCEPT !.logs = Append(@, <<>>)], None)
    ELSE Throws(ctx, TypeError(<<"Unknown encoding: ", "utf16">>))

\* storage_read up to parentPort.postMessage: the composite key
compKey(contractId, storageKey) == utf8Encode(contractId \o <<Colon>>) \o storageKey

\* the message storage_read posts to the pool
StorageReadMessage(ctx, key_len, key_ptr) ==
    [result |-> None, logs |-> None, error |-> None,
     methodName |-> Some("storage_read"),
     compKey |-> Some(compKey(ctx.contractId, View(ctx.memory, key_ptr, key_len)))]

\* (mutant) storage_read taking an empty value for no value
storage_read_result_emptyIsFalsy(ctx, register_id, result) ==
    IF result = None \/ result[1] = <<>>
    THEN Returns(ctx, Some(U64(0)))
    ELSE Returns([ctx EXCEPT !.registers[register_id] = result], Some(U64(1)))

\* storage_read from resultMessage.message on: null and undefined are falsy,
\* bytes (of any length) are truthy
storage_read_result(ctx, register_id, result) ==
    IF result = None
    THEN Returns(ctx, Some(U64(0)))
    ELSE Returns([ctx EXCEPT !.registers[register_id] = result], Some(U64(1)))

\* resultMessage.message of what receiveMessageOnPort took from the port
received(message) ==
    IF message.tag = "null" THEN None
    ELSE IF message.tag = "data" THEN Some(message.data)
    ELSE Some(message)

\* runWASM: the context of a call once the module is instantiated
NewContext(message) ==
    [blockHeight |-> message.blockHeight,
     contractId  |-> message.contractId,
     methodArgs  |-> message.methodArgs,
     logs        |-> <<>>,
     result      |-> None,
     memory      |-> ModuleMemory(message.wasmModule),
     registers   |-> [r \in RegIds |-> None]]

\* a host call that does not suspend: env[call.name](...call.args)
Invoke(ctx, call) ==
    CASE Binding(call.name) = "prohibitedInView" -> Throws(ctx, prohibitedInView(call.name))
      [] Binding(call.name) = "notImplemented" -> Throws(ctx, notImplemented(call.name))
      [] call.name = "register_len" -> register_len(ctx, call.args[1])
      [] call.name = "read_register" -> read_register(ctx, call.args[1], call.args[2])
      [] call.name = "current_account_id" -> current_account_id(ctx, call.args[1])
      [] call.name = "input" -> input(ctx, call.args[1])
      [] call.name = "block_index" -> block_index(ctx)
      [] call.name = "value_return" -> value_return(ctx, call.args[1], call.args[2])
      [] call.name = "panic" -> panic(ctx)
      [] call.name = "panic_utf8" -> panic_utf8(ctx, call.args[1], call.args[2])
      [] call.name = "abort" -> abort(ctx, call.args[1], call.args[2], call.args[3],
                                      call.args[4])
      [] call.name = "log_utf8" -> log_utf8(ctx, call.args[1], call.args[2])
      [] call.name = "log_utf16" -> log_utf16(ctx, call.args[1], call.args[2])

Call(name, args) == [name |-> name, args |-> args]

(* ------------------------------- state --------------------------------- *)
VARIABLES
    workers,      \* this.workers
    freeWorkers,  \* this.freeWorkers
    taskInfo,     \* worker[kTaskInfo], per worker
    timers,       \* the armed timeoutHandles: <<worker, caller>>
    listeners,    \* the once(kWorkerFreedEvent) listeners, in registration order
    promise,      \* the promise runContract returned to each caller
    lookups,      \* the storage_read lookups the pool is awaiting
    poolErrors,   \* 'error' events emitted on the pool
    thread,       \* each worker thread: none, idle, running, blocked (in
                  \* storage_read), looping (in a host call without exit), dead
    ctx,          \* the ctx of the call a worker thread is running
    guest,        \* where the guest method of that call is
    toWorker,     \* messages posted to a worker, not yet received
    toPool,       \* messages a worker posted, not yet handled by the pool
    events,       \* 'error' and 'exit' events of a worker, not yet handled
    created,      \* worker threads constructed so far
    phase,        \* each caller: new, queued, dispatched, then how its task ended:
                  \* returned, threw (a completion message), exited (the thread)
    woke,         \* the callers not yet settled that a freed event took out of
                  \* the queue
    closed,       \* close() was called
    expired,      \* <<worker, caller>>: the timer fired on a call still running
    fired,        \* <<worker, caller, blocked>>: the timer of the caller's task
                  \* ordered the worker terminated, its thread being suspended in
                  \* a storage_read or not
    exited,       \* the process has exited on an unhandled rejection
    host          \* HostSpec: the call under test

poolVars == <<workers, freeWorkers, taskInfo, timers, listeners, promise, lookups,
              poolErrors, thread, ctx, guest, toWorker, toPool, events, created,
              phase, woke, closed, expired, fired, exited>>
vars == <<workers, freeWorkers, taskInfo, timers, listeners, promise, lookups,
          poolErrors, thread, ctx, guest, toWorker, toPool, events, created,
          phase, woke, closed, expired, fired, exited, host>>

Alive(t) == t \in {"idle", "running", "blocked", "looping"}

Pending == [state |-> "pending"]
Resolved(v) == [state |-> "resolved", value |-> v]
Rejected(e) == [state |-> "rejected", error |-> e]

\* the guest of a call: the host calls made, the register and key of the
\* storage_read it is suspended in, what the storage client answered to that
\* read, and the outcome of the storage_read it has just resumed from
IdleGuest == [calls |-> 0, reading |-> None, answer |-> None, last |-> None]

\* the part of the state the pool's methods work on
Pool ==
    [workers |-> workers, freeWorkers |-> freeWorkers, taskInfo |-> taskInfo,
     timers |-> timers, listeners |-> listeners, promise |-> promise,
     lookups |-> lookups, poolErrors |-> poolErrors, thread |-> thread,
     toWorker |-> toWorker, events |-> events, created |-> created,
     phase |-> phase, woke |-> woke]

Becomes(p) ==
    /\ workers' = p.workers
    /\ freeWorkers' = p.freeWorkers
    /\ taskInfo' = p.taskInfo
    /\ timers' = p.timers
    /\ listeners' = p.listeners
    /\ promise' = p.promise
    /\ lookups' = p.lookups
    /\ poolErrors' = p.poolErrors
    /\ thread' = p.thread
    /\ toWorker' = p.toWorker
    /\ events' = p.events
    /\ created' = p.created
    /\ phase' = p.phase
    /\ woke' = {c \in p.woke : p.promise[c] = Pending}

(* --------------------- the pool (src/worker-pool.js) ------------------- *)
\* resolve / reject of a promise: only a pending promise settles
resolve(p, c, v) ==
    IF p.promise[c] = Pending THEN [p EXCEPT !.promise[c] = Resolved(v)] ELSE p
reject(p, c, e) ==
    IF p.promise[c] = Pending THEN [p EXCEPT !.promise[c] = Rejected(e)] ELSE p

\* worker.postMessage: a thread that has stopped receives nothing
postMessage(p, w, message) ==
    IF Alive(p.thread[w]) THEN [p EXCEPT !.toWorker[w] = Append(@, message)] ELSE p

\* worker.terminate(): stops a live thread, whose 'exit' follows; nothing for a
\* thread that has stopped already. What is posted to a stopped thread is lost,
\* so the lookups awaited on its behalf are dropped with it.
terminate(p, w) ==
    IF Alive(p.thread[w])
    THEN [p EXCEPT !.thread[w] = "dead", !.toWorker[w] = <<>>,
                   !.events[w] = Append(@, "exit"),
                   !.lookups = {l \in @ : l.worker # w}]
    ELSE p

TaskMessage(c) ==
    [tag |-> "task", wasmModule |-> CallArgs(c).wasmModule,
     blockHeight |-> CallArgs(c).blockHeight, contractId |-> CallArgs(c).contractId,
     methodName |-> CallArgs(c).methodName, methodArgs |-> CallArgs(c).methodArgs]

\* (mutant) a pop that leaves the worker in the free set
PopWorker_keeps(free) == free

\* freeWorkers.pop()
PopWorker(free) == SubSeq(free, 1, Len(free) - 1)

\* runContract, the promise executor: queue on the freed event, or dispatch
runContract(p, c) ==
    IF Len(p.freeWorkers) = 0
    THEN [p EXCEPT !.listeners = Append(@, c), !.phase[c] = "queued"]
    ELSE LET worker == p.freeWorkers[Len(p.freeWorkers)]
             p1 == [p EXCEPT !.freeWorkers = PopWorker(@),
                             !.taskInfo[worker] =
                                 Some([caller |-> c,
                                       blockHeight |-> CallArgs(c).blockHeight,
                                       contractId |-> CallArgs(c).contractId,
                                       methodName |-> CallArgs(c).methodName,
                                       didTimeout |-> FALSE]),
                             !.phase[c] = "dispatched"]
             p2 == postMessage(p1, worker, TaskMessage(c))
         IN [p2 EXCEPT !.timers = @ \cup {<<worker, c>>}]

\* emit(kWorkerFreedEvent): every listener registered before the emit runs once,
\* in order; one that queues again is registered behind them
RECURSIVE RunListeners(_, _)
RunListeners(p, ls) ==
    IF ls = <<>> THEN p
    ELSE LET q == runContract(p, Head(ls))
         IN RunListeners([q EXCEPT !.woke = IF q.phase[Head(ls)] = "dispatched"
                                            THEN @ \cup {Head(ls)} ELSE @],
                         Tail(ls))

\* (mutant) an emit that runs the listener registered last first
emitWorkerFreed_lastFirst(p) ==
    RunListeners([p EXCEPT !.listeners = <<>>],
                 [i \in 1..Len(p.listeners) |-> p.listeners[Len(p.listeners) + 1 - i]])

emitWorkerFreed(p) == RunListeners([p EXCEPT !.listeners = <<>>], p.listeners)

\* the timeout callback of runContract
onTimeout(p, worker) ==
    IF p.taskInfo[worker] # None
    THEN terminate([p EXCEPT !.taskInfo[worker] = Some([@[1] EXCEPT !.didTimeout = TRUE])],
                   worker)
    ELSE p

\* workers.indexOf(worker): 0-based, -1 when absent
indexOf(arr, x) ==
    IF \E i \in 1..Len(arr) : arr[i] = x
    THEN (CHOOSE i \in 1..Len(arr) : arr[i] = x /\ \A j \in 1..(i - 1) : arr[j] # x) - 1
    ELSE -1

\* arr.splice(start, 1): a negative start counts from the end
splice1(arr, start) ==
    LET from == IF start < 0 THEN (IF Len(arr) + start < 0 THEN 0 ELSE Len(arr) + start)
                ELSE Min(start, Len(arr))
    IN SubSeq(arr, 1, from) \o SubSeq(arr, from + 2, Len(arr))

\* addNewWorker: a new thread, listed and free, and the freed event
addNewWorker(p) ==
    LET worker == p.created + 1
    IN emitWorkerFreed([p EXCEPT !.created = worker,
                                 !.thread[worker] = "idle",
                                 !.workers = Append(@, worker),
                                 !.freeWorkers = Append(@, worker)])

TimeoutError(t) == Error(<<t.contractId, ".", t.methodName, " execution timed out">>)
ExitError(code) == Error(<<"Worker stopped with exit code ", code>>)

\* worker.on('error')
onError(p, worker, err) ==
    LET t == p.taskInfo[worker]
        p1 == IF t # None
              THEN reject([p EXCEPT !.phase[t[1].caller] = "exited"], t[1].caller,
                          IF t[1].didTimeout THEN TimeoutError(t[1]) ELSE err)
              ELSE [p EXCEPT !.poolErrors = @ + 1]
    IN addNewWorker([p1 EXCEPT !.workers = splice1(@, indexOf(p1.workers, worker))])

\* (mutant) worker.on('message') that leaves the timer of the finished task armed
onMessage_noClearTimeout(p, worker, message) ==
    IF p.taskInfo[worker] = None
    THEN p  \* destructuring null throws before anything is done
    ELSE LET t == p.taskInfo[worker][1]
             p1 == IF message.methodName = None
                   THEN emitWorkerFreed(
                            [p EXCEPT !.taskInfo[worker] = None,
                                      !.freeWorkers = Append(@, worker),
                                      !.phase[t.caller] =
                                          IF message.error # None THEN "threw"
                                          ELSE "returned"])
                   ELSE p
         IN IF message.error # None THEN reject(p1, t.caller, message.error[1])
            ELSE IF message.result # None
                 THEN resolve(p1, t.caller,
                              [result |-> message.result[1], logs |-> message.logs[1]])
            ELSE IF message.methodName = Some("storage_read")
                 THEN [p1 EXCEPT !.lookups = @ \cup
                          {[worker |-> worker, compKey |-> message.compKey[1],
                            blockHeight |-> t.blockHeight, blockHash |-> None]}]
            ELSE p1

\* worker.on('message')
onMessage(p, worker, message) ==
    IF p.taskInfo[worker] = None
    THEN p  \* destructuring null throws before anything is done
    ELSE LET t == p.taskInfo[worker][1]
             p1 == IF message.methodName = None
                   THEN emitWorkerFreed(
                            [p EXCEPT !.timers = @ \ {<<worker, t.caller>>},
                                      !.taskInfo[worker] = None,
                                      !.freeWorkers = Append(@, worker),
                                      !.phase[t.caller] =
                                          IF message.error # None THEN "threw"
                                          ELSE "returned"])
                   ELSE p
         IN IF message.error # None THEN reject(p1, t.caller, message.error[1])
            ELSE IF message.result # None
                 THEN resolve(p1, t.caller,
                              [result |-> message.result[1], logs |-> message.logs[1]])
            ELSE IF message.methodName = Some("storage_read")
                 THEN [p1 EXCEPT !.lookups = @ \cup
                          {[worker |-> worker, compKey |-> message.compKey[1],
                            blockHeight |-> t.blockHeight, blockHash |-> None]}]
            ELSE p1

\* close()
RECURSIVE TerminateAll(_, _)
TerminateAll(p, ws) ==
    IF ws = <<>> THEN p ELSE TerminateAll(terminate(p, Head(ws)), Tail(ws))
close(p) == TerminateAll(p, p.workers)

(* ----------------------- the pool specification ------------------------ *)
\* the host calls a guest method makes in the pool specification
PoolGuestCalls ==
    {Call("value_return", <<1, 0>>), Call("log_utf8", <<1, 1>>), Call("panic", <<>>)}
\* and its storage_read calls: key_len, key_ptr, register_id
PoolStorageReads == {<<1, 0, 0>>}
\* the answers of the storage client
BlockHashes == {"h1"}
StorageValues == {<<>>, <<7>>}

\* an uncaught error of a worker thread, and a trap of the guest
CrashError == Error(<<"Worker terminated due to reaching memory limit">>)
TrapError == [name |-> "RuntimeError", message |-> <<"unreachable">>]

HostIdle == [status |-> "idle"]

\* new WorkerPool(numThreads, storageClient)
RECURSIVE AddWorkers(_, _)
AddWorkers(p, n) == IF n = 0 THEN p ELSE AddWorkers(addNewWorker(p), n - 1)

constructor(numThreads) ==
    AddWorkers([workers |-> <<>>, freeWorkers |-> <<>>,
                taskInfo |-> [w \in WorkerIds |-> None],
                timers |-> {}, listeners |-> <<>>,
                promise |-> [c \in Callers |-> Pending],
                lookups |-> {}, poolErrors |-> 0,
                thread |-> [w \in WorkerIds |-> "none"],
                toWorker |-> [w \in WorkerIds |-> <<>>],
                events |-> [w \in WorkerIds |-> <<>>],
                created |-> 0,
                phase |-> [c \in Callers |-> "new"], woke |-> {}],
               numThreads)

Init ==
    /\ LET p == constructor(NumThreads)
       IN /\ workers = p.workers
          /\ freeWorkers = p.freeWorkers
          /\ taskInfo = p.taskInfo
          /\ timers = p.timers
          /\ listeners = p.listeners
          /\ promise = p.promise
          /\ lookups = p.lookups
          /\ poolErrors = p.poolErrors
          /\ thread = p.thread
          /\ toWorker = p.toWorker
          /\ events = p.events
          /\ created = p.created
          /\ phase = p.phase
          /\ woke = p.woke
    /\ ctx = [w \in WorkerIds |-> None]
    /\ guest = [w \in WorkerIds |-> IdleGuest]
    /\ toPool = [w \in WorkerIds |-> <<>>]
    /\ closed = FALSE
    /\ expired = {}
    /\ fired = {}
    /\ exited = FALSE
    /\ host = HostIdle

\* a caller calls runContract; the callers are numbered in the order they call
RunContract(c) ==
    /\ ~exited
    /\ phase[c] = "new"
    /\ \A d \in 1..(c - 1) : phase[d] # "new"
    /\ Becomes(runContract(Pool, c))
    /\ UNCHANGED <<ctx, guest, toPool, closed, expired, fired, exited, host>>

\* the guest has not finished: it posted no completion and did not crash
Unfinished(w) ==
    /\ \A i \in 1..Len(toPool[w]) : toPool[w][i].methodName # None
    /\ \A i \in 1..Len(events[w]) : events[w][i] # "error"

\* the timer armed for caller c's task on worker w fires
TimerFires(w, c) ==
    /\ ~exited
    /\ <<w, c>> \in timers
    /\ Becomes(onTimeout([Pool EXCEPT !.timers = @ \ {<<w, c>>}], w))
    /\ expired' = IF /\ taskInfo[w] # None /\ taskInfo[w][1].caller = c
                     /\ promise[c] = Pending /\ Unfinished(w)
                  THEN expired \cup {<<w, c>>} ELSE expired
    /\ ctx' = [ctx EXCEPT ![w] = None]
    /\ guest' = [guest EXCEPT ![w] = IdleGuest]
    /\ fired' = IF taskInfo[w] # None
                THEN fired \cup {<<w, c, thread[w] = "blocked">>} ELSE fired
    /\ UNCHANGED <<toPool, closed, exited, host>>

\* the pool handles a message of worker w
PoolOnMessage(w) ==
    /\ ~exited
    /\ toPool[w] # <<>>
    /\ Becomes(onMessage(Pool, w, Head(toPool[w])))
    /\ toPool' = [toPool EXCEPT ![w] = Tail(@)]
    /\ UNCHANGED <<ctx, guest, closed, expired, fired, exited, host>>

\* what the storage_read case posts to the worker: the data of the block hash
\* found, null without a block hash
storageReply(blockHash, data) ==
    IF blockHash # None
    THEN (IF data = None THEN [tag |-> "null"] ELSE [tag |-> "data", data |-> data[1]])
    ELSE [tag |-> "null"]

\* what the storage client answered to the read a live worker is suspended in
Answered(w, l, blockHash, data) ==
    IF guest[w].reading # None
    THEN [guest EXCEPT ![w].answer =
             Some([compKey |-> l.compKey, blockHeight |-> l.blockHeight,
                   blockHash |-> blockHash, data |-> data])]
    ELSE guest

\* storageClient.getLatestDataBlockHash answers: no hash, and null is posted;
\* or a hash, and getData is awaited
StorageHashAnswer(l, blockHash) ==
    /\ ~exited
    /\ l \in lookups
    /\ l.blockHash = None
    /\ IF blockHash = None
       THEN /\ Becomes(postMessage([Pool EXCEPT !.lookups = @ \ {l}], l.worker,
                                   storageReply(None, None)))
            /\ guest' = Answered(l.worker, l, None, None)
       ELSE /\ Becomes([Pool EXCEPT !.lookups = (@ \ {l}) \cup {[l EXCEPT !.blockHash = blockHash]}])
            /\ guest' = guest
    /\ UNCHANGED <<ctx, toPool, closed, expired, fired, exited, host>>

\* storageClient.getData answers, and the data is posted
StorageDataAnswer(l, data) ==
    /\ ~exited
    /\ l \in lookups
    /\ l.blockHash # None
    /\ Becomes(postMessage([Pool EXCEPT !.lookups = @ \ {l}], l.worker,
                           storageReply(l.blockHash, data)))
    /\ guest' = Answered(l.worker, l, l.blockHash, data)
    /\ UNCHANGED <<ctx, toPool, closed, expired, fired, exited, host>>

\* a call of the storage client rejects: the async function of the
\* storage_read case rejects with nothing to catch it, so nothing is posted to
\* the worker; the unhandled rejection is either only reported or, by the
\* default of the runtime, ends the process
StorageFails(l, fatal) ==
    /\ ~exited
    /\ l \in lookups
    /\ IF fatal
       THEN /\ exited' = TRUE
            /\ UNCHANGED <<workers, freeWorkers, taskInfo, timers, listeners, promise,
                           lookups, poolErrors, thread, toWorker, events, created,
                           phase, woke>>
       ELSE /\ exited' = exited
            /\ Becomes([Pool EXCEPT !.lookups = @ \ {l}])
    /\ UNCHANGED <<ctx, guest, toPool, closed, expired, fired, host>>

\* the 'error' event of a worker whose thread died of an uncaught error
WorkerOnError(w) ==
    /\ ~exited
    /\ events[w] # <<>>
    /\ Head(events[w]) = "error"
    /\ created < MaxWorkers
    /\ Becomes(onError([Pool EXCEPT !.events[w] = Tail(@)], w, CrashError))
    /\ UNCHANGED <<ctx, guest, toPool, closed, expired, fired, exited, host>>

\* the 'exit' event of a worker, once its port is drained: it emits 'error'
WorkerOnExit(w) ==
    /\ ~exited
    /\ events[w] # <<>>
    /\ Head(events[w]) = "exit"
    /\ toPool[w] = <<>>
    /\ created < MaxWorkers
    /\ Becomes(onError([Pool EXCEPT !.events[w] = Tail(@)], w, ExitError(1)))
    /\ UNCHANGED <<ctx, guest, toPool, closed, expired, fired, exited, host>>

\* close() is called
Close ==
    /\ ~exited
    /\ ~closed
    /\ closed' = TRUE
    /\ Becomes(close(Pool))
    /\ ctx' = [w \in WorkerIds |-> IF Alive(thread[w]) /\ \E i \in 1..Len(workers) : workers[i] = w
                                   THEN None ELSE ctx[w]]
    /\ guest' = [w \in WorkerIds |-> IF Alive(thread[w]) /\ \E i \in 1..Len(workers) : workers[i] = w
                                     THEN IdleGuest ELSE guest[w]]
    /\ UNCHANGED <<toPool, expired, fired, exited, host>>

(* the worker thread *)
\* parentPort.on('message'): a task starts runWASM; null has no wasmModule to
\* read, which is an uncaught TypeError; anything else is ignored
WorkerOnMessage(w) ==
    /\ ~exited
    /\ thread[w] = "idle"
    /\ toWorker[w] # <<>>
    /\ LET message == Head(toWorker[w])
       IN /\ toWorker' = [toWorker EXCEPT ![w] = Tail(@)]
          /\ IF message.tag = "task"
             THEN /\ thread' = [thread EXCEPT ![w] = "running"]
                  /\ ctx' = [ctx EXCEPT ![w] = Some(NewContext(message))]
                  /\ events' = events
             ELSE IF message.tag = "null"
             THEN /\ thread' = [thread EXCEPT ![w] = "dead"]
                  /\ events' = [events EXCEPT ![w] = @ \o <<"error", "exit">>]
                  /\ ctx' = ctx
             ELSE UNCHANGED <<thread, ctx, events>>
    /\ guest' = [guest EXCEPT ![w] = IdleGuest]
    /\ UNCHANGED <<workers, freeWorkers, taskInfo, timers, listeners, promise, lookups,
                   poolErrors, toPool, created, phase, woke, closed, expired, fired, exited, host>>

\* the message .catch posts for a rejected runWASM
ErrorMessage(err) ==
    [result |-> None, logs |-> None, error |-> Some(err), methodName |-> None,
     compKey |-> None]
\* the message .then posts for the ctx runWASM resolved with
ResultMessage(c) ==
    [result |-> c.result, logs |-> Some(c.logs), error |-> None, methodName |-> None,
     compKey |-> None]

\* runWASM rejected: .catch posts the error, the thread is idle again
PostError(w, err) ==
    /\ toPool' = [toPool EXCEPT ![w] = Append(@, ErrorMessage(err))]
    /\ thread' = [thread EXCEPT ![w] = "idle"]
    /\ ctx' = [ctx EXCEPT ![w] = None]
    /\ guest' = [guest EXCEPT ![w] = IdleGuest]

\* the guest calls a host function that does not suspend
GuestCall(w, call) ==
    /\ ~exited
    /\ thread[w] = "running"
    /\ guest[w].calls < MaxGuestCalls
    /\ LET r == Invoke(ctx[w][1], call)
       IN IF r.diverges
          THEN /\ thread' = [thread EXCEPT ![w] = "looping"]
               /\ UNCHANGED <<ctx, guest, toPool>>
          ELSE IF r.thrown # None
          THEN PostError(w, r.thrown[1])
          ELSE /\ ctx' = [ctx EXCEPT ![w] = Some(r.ctx)]
               /\ guest' = [guest EXCEPT ![w].calls = @ + 1, ![w].last = None]
               /\ UNCHANGED <<toPool, thread>>
    /\ UNCHANGED <<workers, freeWorkers, taskInfo, timers, listeners, promise, lookups,
                   poolErrors, toWorker, events, created, phase, woke, closed, expired, fired, exited, host>>

\* the guest calls storage_read: the request is posted and the thread blocks
GuestStorageRead(w, key_len, key_ptr, register_id) ==
    /\ ~exited
    /\ thread[w] = "running"
    /\ guest[w].calls < MaxGuestCalls
    /\ IF InRange(ctx[w][1].memory, key_ptr, key_len)
       THEN /\ toPool' = [toPool EXCEPT ![w] =
                             Append(@, StorageReadMessage(ctx[w][1], key_len, key_ptr))]
            /\ thread' = [thread EXCEPT ![w] = "blocked"]
            /\ guest' = [guest EXCEPT ![w].calls = @ + 1,
                                      ![w].reading =
                                          Some([register_id |-> register_id,
                                                key |-> View(ctx[w][1].memory, key_ptr, key_len)]),
                                      ![w].last = None]
            /\ ctx' = ctx
       ELSE PostError(w, RangeError(<<"Invalid typed array length">>))
    /\ UNCHANGED <<workers, freeWorkers, taskInfo, timers, listeners, promise, lookups,
                   poolErrors, toWorker, events, created, phase, woke, closed, expired, fired, exited, host>>

\* receiveMessageOnPort returns a message: storage_read resumes with it
GuestReceive(w) ==
    /\ ~exited
    /\ thread[w] = "blocked"
    /\ toWorker[w] # <<>>
    /\ LET message == Head(toWorker[w])
           register_id == guest[w].reading[1].register_id
           r == storage_read_result(ctx[w][1], register_id, received(message))
       IN /\ ctx' = [ctx EXCEPT ![w] = Some(r.ctx)]
          /\ guest' = [guest EXCEPT ![w].reading = None,
                                    ![w].answer = None,
                                    ![w].last = Some([register_id |-> register_id,
                                                      key |-> guest[w].reading[1].key,
                                                      ret |-> r.ret[1],
                                                      before |-> ctx[w][1].registers[register_id],
                                                      answer |-> guest[w].answer])]
    /\ toWorker' = [toWorker EXCEPT ![w] = Tail(@)]
    /\ thread' = [thread EXCEPT ![w] = "running"]
    /\ UNCHANGED <<workers, freeWorkers, taskInfo, timers, listeners, promise, lookups,
                   poolErrors, toPool, events, created, phase, woke, closed, expired, fired, exited, host>>

\* the guest method returns: .then posts { result, logs }
GuestReturn(w) ==
    /\ ~exited
    /\ thread[w] = "running"
    /\ toPool' = [toPool EXCEPT ![w] = Append(@, ResultMessage(ctx[w][1]))]
    /\ thread' = [thread EXCEPT ![w] = "idle"]
    /\ ctx' = [ctx EXCEPT ![w] = None]
    /\ guest' = [guest EXCEPT ![w] = IdleGuest]
    /\ UNCHANGED <<workers, freeWorkers, taskInfo, timers, listeners, promise, lookups,
                   poolErrors, toWorker, events, created, phase, woke, closed, expired, fired, exited, host>>

\* the guest traps
GuestTrap(w) ==
    /\ ~exited
    /\ thread[w] = "running"
    /\ PostError(w, TrapError)
    /\ UNCHANGED <<workers, freeWorkers, taskInfo, timers, listeners, promise, lookups,
                   poolErrors, toWorker, events, created, phase, woke, closed, expired, fired, exited, host>>

\* the thread dies of an uncaught error while it runs a call
WorkerCrash(w) ==
    /\ ~exited
    /\ thread[w] = "running"
    /\ thread' = [thread EXCEPT ![w] = "dead"]
    /\ events' = [events EXCEPT ![w] = @ \o <<"error", "exit">>]
    /\ toWorker' = [toWorker EXCEPT ![w] = <<>>]
    /\ lookups' = {l \in lookups : l.worker # w}
    /\ ctx' = [ctx EXCEPT ![w] = None]
    /\ guest' = [guest EXCEPT ![w] = IdleGuest]
    /\ UNCHANGED <<workers, freeWorkers, taskInfo, timers, listeners, promise,
                   poolErrors, toPool, created, phase, woke, closed, expired, fired, exited, host>>

Next ==
    \/ \E c \in Callers : RunContract(c)
    \/ \E w \in WorkerIds, c \in Callers : TimerFires(w, c)
    \/ \E w \in WorkerIds : PoolOnMessage(w)
    \/ \E l \in lookups, h \in {None} \cup {Some(x) : x \in BlockHashes} : StorageHashAnswer(l, h)
    \/ \E l \in lookups, d \in {None} \cup {Some(x) : x \in StorageValues} : StorageDataAnswer(l, d)
    \/ \E l \in lookups, fatal \in BOOLEAN : StorageFails(l, fatal)
    \/ \E w \in WorkerIds : WorkerOnError(w)
    \/ \E w \in WorkerIds : WorkerOnExit(w)
    \/ Close
    \/ \E w \in WorkerIds : WorkerOnMessage(w)
    \/ \E w \in WorkerIds, call \in PoolGuestCalls : GuestCall(w, call)
    \/ \E w \in WorkerIds, a \in PoolStorageReads : GuestStorageRead(w, a[1], a[2], a[3])
    \/ \E w \in WorkerIds : GuestReceive(w)
    \/ \E w \in WorkerIds : GuestReturn(w)
    \/ \E w \in WorkerIds : GuestTrap(w)
    \/ \E w \in WorkerIds : WorkerCrash(w)

Spec == Init /\ [][Next]_vars

(* ----------------------- the host specification ------------------------ *)
\* host calls the guest of one call makes in a row
MaxHostCalls == 3
\* calls one worker thread runs one after the other
MaxHostRuns == 2

\* the callers whose calls the worker runs
HostCallers == {c \in Callers : c <= 2}

\* the host calls the guest may make, with their arguments
HostCalls ==
    {Call(n, <<>>) : n \in {m \in ImportNames : Binding(m) # "function"}}
    \cup {Call("register_len", <<r>>) : r \in RegIds}
    \cup {Call("read_register", <<r, ptr>>) : r \in RegIds, ptr \in {0, 3, 4, 5}}
    \cup {Call("current_account_id", <<r>>) : r \in RegIds}
    \cup {Call("input", <<r>>) : r \in RegIds}
    \cup {Call("block_index", <<>>), Call("panic", <<>>)}
    \cup {Call("value_return", <<len, ptr>>) : len \in {0, 2}, ptr \in {0, 3}}
    \cup {Call("panic_utf8", <<2, ptr>>) : ptr \in {0, 3}}
    \cup {Call("log_utf8", <<len, ptr>>) : len \in {1, 2}, ptr \in {0, 2, 3}}
    \cup {Call("log_utf16", <<len, 0>>) : len \in {0, 2}}
    \cup {Call("abort", <<msg_ptr, filename_ptr, 10, 2>>) :
              msg_ptr \in {0, 1, 2}, filename_ptr \in {0, 2}}
\* key_len, key_ptr, register_id of its storage_read calls
HostStorageReads == {<<k[1], k[2], r>> : k \in {<<1, 0>>, <<2, 3>>}, r \in RegIds}
\* what the storage client may hold for a key
HostStorageValues == {<<>>, <<7>>, <<7, 8>>}

HostInit ==
    /\ Init
    /\ host = HostIdle

\* (mutant) a start that keeps the registers of the call before, as a register
\* table shared by the calls of a thread would
HostStart_registersKept(c) ==
    /\ \/ host.status = "idle"
       \/ /\ host.status \in {"returned", "failed"}
          /\ host.settled # None
          /\ host.runs < MaxHostRuns
    /\ host' = [status |-> "running",
                runs |-> IF host.status = "idle" THEN 1 ELSE host.runs + 1,
                caller |-> c,
                prev |-> IF host.status = "idle" THEN None
                         ELSE Some([registers |-> \E r \in RegIds : host.ctx.registers[r] # None,
                                    logs |-> host.ctx.logs # <<>>,
                                    result |-> host.ctx.result # None,
                                    status |-> host.status]),
                emitted |-> <<>>,
                returned |-> None,
                settled |-> None,
                calls |-> 0,
                ctx |-> [NewContext(TaskMessage(c)) EXCEPT
                            !.registers = IF host.status = "idle" THEN @
                                          ELSE host.ctx.registers],
                before |-> NewContext(TaskMessage(c)),
                last |-> None, ret |-> None, answer |-> None,
                written |-> [r \in RegIds |-> None],
                posted |-> None]
    /\ UNCHANGED poolVars

\* parentPort.on('message') with a task: runWASM instantiates the module. The
\* pool gives a worker its next task once it has handled the completion of the
\* one before.
\* host.written remembers, per register, the host call that last wrote it and
\* the bytes the caller or the storage client supplied for it; host.emitted the
\* bytes each log call that returned was called on, host.returned the arguments
\* and the memory of the last value_return, host.prev what the call before
\* left behind (whether it wrote a register, logged, set a result, and how it
\* ended), remembered until the first step of the call.
HostStart(c) ==
    /\ \/ host.status = "idle"
       \/ /\ host.status \in {"returned", "failed"}
          /\ host.settled # None
          /\ host.runs < MaxHostRuns
    /\ host' = [status |-> "running",
                runs |-> IF host.status = "idle" THEN 1 ELSE host.runs + 1,
                caller |-> c,
                prev |-> IF host.status = "idle" THEN None
                         ELSE Some([registers |-> \E r \in RegIds : host.ctx.registers[r] # None,
                                    logs |-> host.ctx.logs # <<>>,
                                    result |-> host.ctx.result # None,
                                    status |-> host.status]),
                emitted |-> <<>>,
                returned |-> None,
                settled |-> None,
                calls |-> 0,
                ctx |-> NewContext(TaskMessage(c)),
                before |-> NewContext(TaskMessage(c)),
                last |-> None, ret |-> None, answer |-> None,
                written |-> [r \in RegIds |-> None],
                posted |-> None]
    /\ UNCHANGED poolVars

\* the guest calls a host function that does not suspend
HostCall(call) ==
    /\ host.status = "running"
    /\ host.calls < MaxHostCalls
    /\ LET r == Invoke(host.ctx, call)
       IN host' = [host EXCEPT !.status = IF r.diverges THEN "hung"
                                          ELSE IF r.thrown # None THEN "failed"
                                          ELSE "running",
                               !.calls = @ + 1,
                               !.prev = None,
                               !.ctx = r.ctx,
                               !.before = host.ctx,
                               !.last = Some(call),
                               !.ret = r.ret,
                               !.answer = None,
                               !.emitted = IF call.name \in {"log_utf8", "log_utf16"}
                                              /\ r.thrown = None
                                           THEN Append(@, View(host.ctx.memory, call.args[2],
                                                               call.args[1]))
                                           ELSE @,
                               !.returned = IF call.name = "value_return"
                                            THEN Some([value_len |-> call.args[1],
                                                       value_ptr |-> call.args[2],
                                                       memory |-> host.ctx.memory])
                                            ELSE @,
                               !.written = IF r.thrown = None /\ call.name = "input"
                                           THEN [@ EXCEPT ![call.args[1]] =
                                                    Some([by |-> "input", value |-> host.ctx.methodArgs])]
                                           ELSE IF r.thrown = None /\ call.name = "current_account_id"
                                           THEN [@ EXCEPT ![call.args[1]] =
                                                    Some([by |-> "current_account_id",
                                                          value |-> host.ctx.contractId])]
                                           ELSE @,
                               !.posted = IF r.thrown # None
                                          THEN Some(ErrorMessage(r.thrown[1])) ELSE None]
    /\ UNCHANGED poolVars

\* the guest calls storage_read and the pool answers with what the storage
\* client reported
HostStorageRead(key_len, key_ptr, register_id, blockHash, data) ==
    /\ host.status = "running"
    /\ host.calls < MaxHostCalls
    /\ LET call == Call("storage_read", <<key_len, key_ptr, register_id>>)
           ok == InRange(host.ctx.memory, key_ptr, key_len)
           r == IF ok
                THEN storage_read_result(host.ctx, register_id,
                                         received(storageReply(blockHash, data)))
                ELSE Throws(host.ctx, RangeError(<<"Invalid typed array length">>))
       IN host' = [host EXCEPT !.status = IF r.thrown # None THEN "failed" ELSE "running",
                               !.calls = @ + 1,
                               !.prev = None,
                               !.ctx = r.ctx,
                               !.before = host.ctx,
                               !.last = Some(call),
                               !.ret = r.ret,
                               !.answer = IF ok
                                          THEN Some([message |-> StorageReadMessage(host.ctx, key_len, key_ptr),
                                                     blockHash |-> blockHash,
                                                     data |-> IF blockHash = None THEN None ELSE data])
                                          ELSE None,
                               !.written = IF ok /\ blockHash # None /\ data # None
                                           THEN [@ EXCEPT ![register_id] =
                                                    Some([by |-> "storage_read", value |-> data[1]])]
                                           ELSE @,
                               !.posted = IF r.thrown # None
                                          THEN Some(ErrorMessage(r.thrown[1])) ELSE None]
    /\ UNCHANGED poolVars

\* the guest method returns
HostReturn ==
    /\ host.status = "running"
    /\ host' = [host EXCEPT !.status = "returned",
                            !.prev = None,
                            !.posted = Some(ResultMessage(host.ctx))]
    /\ UNCHANGED poolVars

\* the guest traps
HostTrap ==
    /\ host.status = "running"
    /\ host' = [host EXCEPT !.status = "failed",
                            !.prev = None,
                            !.last = None,
                            !.posted = Some(ErrorMessage(TrapError))]
    /\ UNCHANGED poolVars

\* the pool, with the call dispatched to a worker, handles the message the
\* worker posted at the end of the call
HostDeliver ==
    /\ host.status \in {"returned", "failed"}
    /\ host.settled = None
    /\ LET p == runContract(constructor(NumThreads), host.caller)
           worker == CHOOSE w \in WorkerIds : p.taskInfo[w] # None
       IN host' = [host EXCEPT !.settled =
                      Some(onMessage(p, worker, host.posted[1]).promise[host.caller])]
    /\ UNCHANGED poolVars

HostNext ==
    \/ \E c \in HostCallers : HostStart(c)
    \/ HostDeliver
    \/ \E call \in HostCalls : HostCall(call)
    \/ \E a \in HostStorageReads, h \in {None} \cup {Some(x) : x \in BlockHashes},
          d \in {None} \cup {Some(x) : x \in HostStorageValues} :
            HostStorageRead(a[1], a[2], a[3], h, d)
    \/ HostReturn
    \/ HostTrap

HostSpec == HostInit /\ [][HostNext]_vars

(* ------------------------------ the claims ----------------------------- *)
LiveWorkers == {w \in WorkerIds : Alive(thread[w])}
Listed == {workers[i] : i \in 1..Len(workers)}
\* every message and every 'error' and 'exit' event has been handled
Quiet == \A w \in WorkerIds : events[w] = <<>> /\ toPool[w] = <<>>

\* C1: once the pool has handled the completion message of a guest method that
\* returned normally, the caller's promise is resolved, also when the guest never
\* called value_return.
C1_ReturnedSettles ==
    \A c \in Callers : phase[c] = "returned" => promise[c].state = "resolved"

\* C2: at every moment at most numThreads tasks are dispatched and not yet
\* finished (stated for a pool on which close() was not called).
C2_AtMostNOutstanding ==
    ~closed => Cardinality({c \in Callers : phase[c] = "dispatched"}) <= NumThreads

\* C3: a task whose timer fired while its guest had not finished is rejected with
\* '<contractId>.<methodName> execution timed out' once the events of its worker
\* are handled (stated for a pool on which close() was not called).
C3_TimeoutRejects ==
    \A e \in expired :
        (~closed /\ events[e[1]] = <<>> /\ toPool[e[1]] = <<>>)
        => promise[e[2]] =
               Rejected([name |-> "Error",
                         message |-> <<CallArgs(e[2]).contractId, ".",
                                       CallArgs(e[2]).methodName, " execution timed out">>])

\* C4: after completions, timeouts and crashes, once every notification is
\* handled, exactly numThreads worker threads are alive and this.workers holds
\* exactly those.
C4_CapacityRestored ==
    (~closed /\ Quiet)
    => /\ Cardinality(LiveWorkers) = NumThreads
       /\ Len(workers) = NumThreads
       /\ Listed = LiveWorkers

\* C5: after close() and the handling of every resulting 'exit', no worker thread
\* of the pool is alive and no task is dispatched any more.
C5_ClosedPoolIsDead ==
    (closed /\ Quiet) => LiveWorkers = {}

\* C6: the pool handling the error message of a task cancels the task's timer,
\* rejects the caller with that error, leaves every thread and this.workers as
\* they are, and frees the worker: it joins freeWorkers with no task when no
\* caller is queued, and otherwise goes to the caller queued first, the other
\* queued callers staying queued in order.
C6_ExpectedFailure ==
    [][\A w \in WorkerIds :
          (PoolOnMessage(w) /\ taskInfo[w] # None /\ Head(toPool[w]).error # None)
          => LET c == taskInfo[w][1].caller
                 err == Head(toPool[w]).error[1]
             IN /\ <<w, c>> \notin timers'
                /\ promise'[c] = [state |-> "rejected", error |-> err]
                /\ thread' = thread
                /\ created' = created
                /\ workers' = workers
                /\ IF listeners = <<>>
                   THEN /\ taskInfo'[w] = None
                        /\ freeWorkers' = Append(freeWorkers, w)
                        /\ listeners' = <<>>
                   ELSE /\ taskInfo'[w] # None
                        /\ taskInfo'[w][1].caller = Head(listeners)
                        /\ <<w, Head(listeners)>> \in timers'
                        /\ listeners' = Tail(listeners)
                        /\ freeWorkers' = freeWorkers]_vars

\* C6 witness: caller 1's task failed in the guest and was rejected with the
\* guest's error, and its worker, still alive, now runs the task of caller 2.
C6_Witness ==
    /\ phase[1] = "threw"
    /\ promise[1] = [state |-> "rejected",
                     error |-> [name |-> "Error", message |-> <<"panic: explicit guest panic">>]]
    /\ taskInfo[1] # None
    /\ taskInfo[1][1].caller = 2
    /\ thread[1] = "running"

\* the composite key of the spec: the UTF-8 bytes of the contract id, ':', the
\* raw key
C7_Key(contractId, key) ==
    (IF contractId = <<97>> THEN <<97>> ELSE <<98, 195, 169>>) \o <<58>> \o key

\* C7 as claimed: a storage_read that has resumed looked up contractId:rawKey at
\* the block height of the worker's task; without a block hash it returned 0 and
\* the register is unset, otherwise the register holds the fetched value and it
\* returned 1.
C7_AsClaimed ==
    \A w \in WorkerIds :
        (thread[w] = "running" /\ guest[w].last # None)
        => LET l == guest[w].last[1]
               a == l.answer[1]
               t == taskInfo[w][1]
               reg == ctx[w][1].registers[l.register_id]
           IN /\ l.answer # None
              /\ taskInfo[w] # None
              /\ a.compKey = C7_Key(t.contractId, l.key)
              /\ a.blockHeight = t.blockHeight
              /\ IF a.blockHash = None
                 THEN l.ret = <<0, 0, 0, 0>> /\ reg = None
                 ELSE l.ret = <<0, 0, 0, 1>> /\ reg = a.data

\* C7 amended: ... without a block hash, or without data for the block hash, it
\* returned 0 and the register is as it was before the call; otherwise the
\* register holds the fetched value and it returned 1.
C7_StorageRead ==
    \A w \in WorkerIds :
        (thread[w] = "running" /\ guest[w].last # None)
        => LET l == guest[w].last[1]
               a == l.answer[1]
               t == taskInfo[w][1]
               reg == ctx[w][1].registers[l.register_id]
           IN /\ l.answer # None
              /\ taskInfo[w] # None
              /\ a.compKey = C7_Key(t.contractId, l.key)
              /\ a.blockHeight = t.blockHeight
              /\ IF a.blockHash = None \/ a.data = None
                 THEN l.ret = <<0, 0, 0, 0>> /\ reg = l.before
                 ELSE l.ret = <<0, 0, 0, 1>> /\ reg = a.data

\* C7 witness: a second storage_read into a register that the first one filled
\* found nothing and returned 0.
C7_Witness ==
    \E w \in WorkerIds :
        /\ thread[w] = "running"
        /\ guest[w].last # None
        /\ guest[w].last[1].ret = <<0, 0, 0, 0>>
        /\ guest[w].last[1].before = <<(<<7>>)>>
        /\ ctx[w][1].registers[guest[w].last[1].register_id] = <<(<<7>>)>>

\* the categories of the spec
C8_Implemented ==
    {"register_len", "read_register", "current_account_id", "input", "block_index",
     "value_return", "panic", "panic_utf8", "abort", "log_utf8", "log_utf16",
     "storage_read"}
C8_Prohibited ==
    {"signer_account_id", "signer_account_pk", "predecessor_account_id",
     "attached_deposit", "prepaid_gas", "used_gas",
     "promise_create", "promise_then", "promise_and", "promise_batch_create",
     "promise_batch_then", "promise_batch_action_create_account",
     "promise_batch_action_deploy_contract", "promise_batch_action_function_call",
     "promise_batch_action_transfer", "promise_batch_action_stake",
     "promise_batch_action_add_key_with_full_access",
     "promise_batch_action_add_key_with_function_call",
     "promise_batch_action_delete_key", "promise_batch_action_delete_account",
     "promise_results_count", "promise_result", "promise_return",
     "storage_write", "storage_remove"}
C8_NotImplemented ==
    {"block_timestamp", "epoch_height", "storage_usage", "account_balance",
     "account_locked_balance", "random_seed", "sha256", "keccak256", "keccak512",
     "storage_has_key", "validator_stake", "validator_total_stake"}

\* the message a caller of a failed call is rejected from
C8_Failure(text, name) ==
    Some([result |-> None, logs |-> None,
          error |-> Some([name |-> "Error", message |-> <<text, name>>]),
          methodName |-> None, compKey |-> None])

\* C8: the import table binds exactly the names of the three categories, each
\* in its category; a call of a prohibited function fails with 'method not
\* available for view calls', a call of a not-implemented one with 'method not
\* implemented', and neither changes registers, logs, result or memory.
C8_Categories ==
    /\ ImportNames = C8_Implemented \cup C8_Prohibited \cup C8_NotImplemented
    /\ C8_Implemented \cap C8_Prohibited = {}
    /\ C8_Implemented \cap C8_NotImplemented = {}
    /\ C8_Prohibited \cap C8_NotImplemented = {}
    /\ \A i \in 1..Len(ImportTable) :
          ImportTable[i][2] =
              IF ImportTable[i][1] \in C8_Implemented THEN "function"
              ELSE IF ImportTable[i][1] \in C8_Prohibited THEN "prohibitedInView"
              ELSE "notImplemented"
    /\ (host.status # "idle" /\ host.last # None)
       => LET name == host.last[1].name
          IN /\ name \in C8_Prohibited
                => /\ host.status = "failed"
                   /\ host.posted = C8_Failure("method not available for view calls: ", name)
                   /\ host.ctx = host.before
             /\ name \in C8_NotImplemented
                => /\ host.status = "failed"
                   /\ host.posted = C8_Failure("method not implemented: ", name)
                   /\ host.ctx = host.before

\* C8 witness: storage_write was called in a call that had logged and filled a
\* register.
C8_Witness ==
    /\ host.status = "failed"
    /\ host.last # None
    /\ host.last[1].name = "storage_write"
    /\ host.ctx.logs # <<>>
    /\ \E r \in RegIds : host.ctx.registers[r] # None

\* the bytes the register a call names should hold
C9_Value(r) == IF host.written[r] = None THEN <<>> ELSE host.written[r][1].value

\* C9: register_len of a register not written returns 2^64-1 and of a written
\* one the length of its value, empty or not; read_register copies exactly the
\* value to ptr and leaves the rest of the memory and the registers alone; for
\* an unset register it writes nothing.
C9_Registers ==
    (host.status # "idle" /\ host.last # None)
    => LET call == host.last[1]
           r == call.args[1]
           ptr == call.args[2]
       IN /\ call.name = "register_len"
             => /\ host.status # "failed"
                /\ host.ret = Some(IF host.written[r] = None
                                   THEN <<65535, 65535, 65535, 65535>>
                                   ELSE <<0, 0, 0, Len(C9_Value(r))>>)
          /\ (call.name = "read_register" /\ host.status # "failed")
             => /\ ptr + Len(C9_Value(r)) <= Len(host.before.memory)
                /\ Len(host.ctx.memory) = Len(host.before.memory)
                /\ \A i \in 1..Len(host.before.memory) :
                      host.ctx.memory[i] =
                          IF i > ptr /\ i <= ptr + Len(C9_Value(r))
                          THEN C9_Value(r)[i - ptr] ELSE host.before.memory[i]
                /\ host.ctx.registers = host.before.registers
          /\ (call.name = "read_register" /\ host.status = "failed")
             => /\ ptr + Len(C9_Value(r)) > Len(host.before.memory)
                /\ host.ctx = host.before

\* C9 witness: read_register copied the two bytes a storage_read found.
C9_Witness ==
    /\ host.status = "running"
    /\ host.last # None
    /\ host.last[1].name = "read_register"
    /\ host.written[host.last[1].args[1]] =
           Some([by |-> "storage_read", value |-> <<7, 8>>])
    /\ host.ctx.memory = <<7, 8, 0, 0>>
    /\ host.before.memory = <<104, 105, 0, 0>>

\* C10: current_account_id(r) returns with the bytes of the contract id in
\* register r, input(r) with the method arguments.
C10_AccountIdAndInput ==
    (host.status # "idle" /\ host.last # None)
    => LET call == host.last[1]
       IN /\ call.name = "current_account_id"
             => /\ host.status # "failed"
                /\ host.ctx.registers[call.args[1]] =
                       Some(IF host.ctx.contractId = <<97>> THEN <<97>>
                            ELSE <<98, 195, 169>>)
          /\ call.name = "input"
             => /\ host.status # "failed"
                /\ host.ctx.registers[call.args[1]] = Some(host.ctx.methodArgs)

\* the bytes a value_return of these arguments finds in the memory
C11_Bytes(v) ==
    LET n == IF v.value_ptr >= Len(v.memory) THEN 0
             ELSE Min(v.value_len, Len(v.memory) - v.value_ptr)
    IN [i \in 1..n |-> v.memory[v.value_ptr + i]]

\* C11: every log call on bytes inside the memory returns and the log sequence
\* holds one entry per log call that returned, in the order of the calls, the
\* entry of ASCII bytes being those characters; value_return always returns and
\* the result is the bytes of its last call; the caller of a call that returned
\* after a value_return is resolved with exactly that result and those logs.
C11_LogsAndResult ==
    host.status # "idle"
    => /\ Len(host.ctx.logs) = Len(host.emitted)
       /\ \A i \in 1..Len(host.emitted) :
              (\A j \in 1..Len(host.emitted[i]) : host.emitted[i][j] < 128)
              => host.ctx.logs[i] = host.emitted[i]
       /\ (/\ host.last # None
           /\ host.last[1].name = "log_utf8"
           /\ host.last[1].args[1] + host.last[1].args[2] <= Len(host.before.memory))
          => host.status \in {"running", "returned"}
       /\ (host.last # None /\ host.last[1].name = "value_return")
          => host.status \in {"running", "returned"}
       /\ host.returned # None
          => host.ctx.result = Some(C11_Bytes(host.returned[1]))
       /\ (host.status = "returned" /\ host.returned # None /\ host.settled # None)
          => host.settled[1] = [state |-> "resolved",
                                value |-> [result |-> C11_Bytes(host.returned[1]),
                                           logs |-> host.ctx.logs]]

\* C11 witness: a call that logged "h", then the zero byte, then returned "hi",
\* and whose caller got both logs in that order and the result.
C11_Witness ==
    /\ host.status = "returned"
    /\ host.settled = Some([state |-> "resolved",
                            value |-> [result |-> <<104, 105>>,
                                       logs |-> << <<104>>, <<0>> >>]])

\* there is a zero 16-bit unit at or after byte offset ptr
C12_Terminated(mem, ptr) ==
    \E k \in 0..Len(mem) :
        /\ ptr + 2 * k + 2 <= Len(mem)
        /\ mem[ptr + 2 * k + 1] = 0
        /\ mem[ptr + 2 * k + 2] = 0

\* the 16-bit units from byte offset ptr up to the first zero unit (or to the
\* end of the memory)
RECURSIVE C12_Units(_, _)
C12_Units(mem, ptr) ==
    IF ptr + 2 > Len(mem) THEN <<>>
    ELSE LET u == mem[ptr + 1] + 256 * mem[ptr + 2]
         IN IF u = 0 THEN <<>> ELSE <<u>> \o C12_Units(mem, ptr + 2)

\* C12: for any msg_ptr and file_ptr from which the memory holds a zero unit,
\* a call of abort(msg_ptr, file_ptr, line, col) fails the call with the error
\* 'abort: <message> <filename>:<line>:<col>', each string being the units from
\* its byte offset up to the first zero unit, and the caller is rejected with
\* that error.
C12_Abort ==
    (/\ host.status # "idle" /\ host.last # None /\ host.last[1].name = "abort"
     /\ C12_Terminated(host.before.memory, host.last[1].args[1])
     /\ C12_Terminated(host.before.memory, host.last[1].args[2]))
    => LET a == host.last[1].args
           err == [name |-> "Error",
                   message |-> <<"abort: ", C12_Units(host.before.memory, a[1]), " ",
                                 C12_Units(host.before.memory, a[2]), ":", a[3], ":", a[4]>>]
       IN /\ host.status = "failed"
          /\ host.posted = Some([result |-> None, logs |-> None, error |-> Some(err),
                                 methodName |-> None, compKey |-> None])
          /\ host.settled # None => host.settled[1] = [state |-> "rejected", error |-> err]


(* C13 *)
\* the worker a step frees: the one whose completion message the pool handles,
\* or the replacement an 'error' handler creates
C13_Freed ==
    {w \in WorkerIds :
        \/ /\ toPool[w] # <<>> /\ toPool'[w] = Tail(toPool[w])
           /\ Head(toPool[w]).methodName = None /\ taskInfo[w] # None
        \/ created' # created /\ w = created'}

\* C13: the callers wait in the order they arrived; a step that frees a worker
\* while callers wait attaches the caller queued first to that worker and leaves
\* the others queued in their order; a caller leaves the queue only that way;
\* and a caller that arrives is dispatched at once only when nobody is queued.
C13_FirstQueuedFirst ==
    [][/\ \A i, j \in 1..Len(listeners') : i < j => listeners'[i] < listeners'[j]
       /\ \A w \in C13_Freed :
              listeners # <<>> =>
                  /\ taskInfo'[w] # None
                  /\ taskInfo'[w][1].caller = Head(listeners)
                  /\ phase'[Head(listeners)] = "dispatched"
                  /\ listeners' = Tail(listeners)
       /\ \A c \in Callers :
              /\ (phase[c] = "queued" /\ phase'[c] # "queued") =>
                     /\ c = Head(listeners)
                     /\ phase'[c] = "dispatched"
                     /\ listeners' = Tail(listeners)
                     /\ C13_Freed # {}
              /\ (phase[c] = "queued" /\ phase'[c] = "queued") =>
                     \E i \in 1..Len(listeners') : listeners'[i] = c
              /\ (phase[c] = "new" /\ phase'[c] = "dispatched") => listeners = <<>>
      ]_vars

\* caller 2 was taken out of the queue by a freed worker while caller 3, who
\* arrived after it, is still queued
C13_Witness ==
    /\ 2 \in woke
    /\ phase[2] = "dispatched"
    /\ phase[3] = "queued"
    /\ listeners = <<3>>


(* C14 *)
\* nothing is left to happen for the tasks dispatched so far: every message
\* and event is handled, no timer is armed, no lookup is awaited and no guest
\* is running
C14_AllDone ==
    /\ Quiet
    /\ timers = {}
    /\ lookups = {}
    /\ \A w \in WorkerIds : thread[w] \in {"none", "idle", "dead"}
    /\ \A w \in WorkerIds : thread[w] = "idle" => toWorker[w] = <<>>

\* C14, first part: no live worker is free while a caller is queued.
C14_NoFreeWhileQueued ==
    listeners # <<>> => \A i \in 1..Len(freeWorkers) : ~Alive(thread[freeWorkers[i]])

\* C14: no wake-up is lost, and once every dispatched task has completed,
\* failed or timed out and the pool has handled it, no caller is still queued
\* and every caller that was queued has been settled (stated for a pool on
\* which close() was not called).
C14_QueuedSettles ==
    /\ C14_NoFreeWhileQueued
    /\ (~closed /\ C14_AllDone) =>
           /\ listeners = <<>>
           /\ \A c \in woke : promise[c] # Pending


(* C15 *)
\* C15, the message handler: handling a storage_read request changes nothing
\* of the task (attached, timer, promise, free set, queue, thread); and a
\* thread suspended in storage_read resumes only by receiving a reply the pool
\* posted.
C15_RequestLeavesTask ==
    [][\A w \in WorkerIds :
          /\ (/\ toPool[w] # <<>> /\ toPool'[w] = Tail(toPool[w])
              /\ Head(toPool[w]).methodName = Some("storage_read"))
             => /\ taskInfo[w] # None
                /\ <<taskInfo, timers, promise, freeWorkers, listeners, thread, phase>>' =
                   <<taskInfo, timers, promise, freeWorkers, listeners, thread, phase>>
                /\ \E l \in lookups' \ lookups :
                       l.worker = w /\ l.compKey = Head(toPool[w]).compKey[1]
          /\ thread[w] = "blocked" => thread'[w] \in {"blocked", "running", "dead"}
          /\ (thread[w] = "blocked" /\ thread'[w] = "running")
             => /\ toWorker[w] # <<>>
                /\ Head(toWorker[w]).tag \in {"null", "data"}
                /\ toWorker'[w] = Tail(toWorker[w])
      ]_vars

\* C15: a worker suspended in storage_read has its task attached, the timer of
\* that task armed and able to fire, its caller unsettled, and is not free; and
\* when the timer of such a task has fired, the caller is rejected with the
\* timeout error once the events of the worker are handled.
C15_TimeoutBoundsRead ==
    /\ \A w \in WorkerIds :
           thread[w] = "blocked" =>
               /\ taskInfo[w] # None
               /\ <<w, taskInfo[w][1].caller>> \in timers
               /\ promise[taskInfo[w][1].caller] = Pending
               /\ \A i \in 1..Len(freeWorkers) : freeWorkers[i] # w
               /\ ENABLED TimerFires(w, taskInfo[w][1].caller)
    /\ \A f \in fired :
           (f[3] /\ events[f[1]] = <<>> /\ toPool[f[1]] = <<>>)
           => promise[f[2]] =
                  Rejected([name |-> "Error",
                            message |-> <<CallArgs(f[2]).contractId, ".",
                                          CallArgs(f[2]).methodName, " execution timed out">>])


(* C16 *)
\* the storage_read requests of worker w on their way: posted and not yet
\* handled, being looked up, or answered and not yet received
C16_Outstanding(tp, ls, tw, w) ==
    Cardinality({i \in 1..Len(tp[w]) : tp[w][i].methodName = Some("storage_read")})
    + Cardinality({l \in ls : l.worker = w})
    + Cardinality({i \in 1..Len(tw[w]) : tw[w][i].tag \in {"null", "data"}})

\* C16: a live worker has at most one storage_read request on its way, and
\* only while its thread is suspended in that storage_read; every reply the
\* pool posts answers one lookup of the worker it is posted to; a suspended
\* thread never finds a task message on its port and an idle one never a reply;
\* and the reply a storage_read consumes is what the storage client answered
\* for the key and block height of the very call that is suspended.
C16_OneRequestOneReply ==
    [][\A w \in WorkerIds :
          /\ Alive(thread'[w]) =>
                 /\ C16_Outstanding(toPool', lookups', toWorker', w) <= 1
                 /\ C16_Outstanding(toPool', lookups', toWorker', w) = 1
                        => thread'[w] = "blocked"
                 /\ thread'[w] = "blocked" =>
                        \A i \in 1..Len(toWorker'[w]) : toWorker'[w][i].tag # "task"
          /\ (/\ Len(toWorker'[w]) > Len(toWorker[w])
              /\ toWorker'[w][Len(toWorker'[w])].tag \in {"null", "data"})
             => /\ Len(toWorker'[w]) = Len(toWorker[w]) + 1
                /\ Cardinality({l \in lookups \ lookups' : l.worker = w}) = 1
                /\ \A v \in WorkerIds \ {w} : Len(toWorker'[v]) <= Len(toWorker[v])
          /\ (thread[w] = "idle" /\ toWorker[w] # <<>> /\ toWorker'[w] = Tail(toWorker[w]))
             => Head(toWorker[w]).tag = "task"
          /\ (thread[w] = "blocked" /\ thread'[w] = "running")
             => /\ guest[w].answer # None
                /\ guest[w].answer[1].compKey =
                       compKey(ctx[w][1].contractId, guest[w].reading[1].key)
                /\ guest[w].answer[1].blockHeight = ctx[w][1].blockHeight
                /\ taskInfo[w] # None
                /\ CallArgs(taskInfo[w][1].caller).contractId = ctx[w][1].contractId
                /\ Head(toWorker[w]) =
                       storageReply(guest[w].answer[1].blockHash, guest[w].answer[1].data)
      ]_vars

\* the second task given to worker 1, the first being settled, has consumed
\* the reply to its own storage_read
C16_Witness ==
    /\ created = 1
    /\ taskInfo[1] # None /\ taskInfo[1][1].caller = 2
    /\ promise[1].state # "pending"
    /\ thread[1] = "running"
    /\ guest[1].last # None /\ guest[1].last[1].answer # None
    /\ guest[1].last[1].answer[1].blockHeight = CallArgs(2).blockHeight


(* C17 *)
\* C17: a call starts with every register unset (register_len answers
\* 2^64-1 for each), no log and no result, whatever the call before it on the
\* same thread wrote and however it ended.
C17_FreshContext ==
    (host.status = "running" /\ host.calls = 0)
    => /\ \A r \in RegIds :
              /\ host.ctx.registers[r] = None
              /\ register_len(host.ctx, r).ret = Some(MAX_U64)
       /\ host.ctx.logs = <<>>
       /\ host.ctx.result = None
       /\ ResultMessage(host.ctx) =
              [result |-> None, logs |-> Some(<<>>), error |-> None, methodName |-> None,
               compKey |-> None]

\* a second call starts on the thread, after a call that wrote a register,
\* logged, set a result and returned
C17_Witness ==
    /\ host.status = "running" /\ host.calls = 0
    /\ host.runs = 2
    /\ host.prev # None
    /\ host.prev[1].registers /\ host.prev[1].logs /\ host.prev[1].result
    /\ host.prev[1].status = "returned"

\* the same after a call that wrote a register, logged and then failed
C17_AfterFailure ==
    /\ host.status = "running" /\ host.calls = 0
    /\ host.runs = 2
    /\ host.prev # None
    /\ host.prev[1].registers /\ host.prev[1].logs
    /\ host.prev[1].status = "failed"


(* C18 *)
\* the UTF-16 (little-endian) code units of an even number of bytes
RECURSIVE C18_Utf16(_)
C18_Utf16(b) ==
    IF Len(b) < 2 THEN <<>>
    ELSE <<b[1] + 256 * b[2]>> \o C18_Utf16(SubSeq(b, 3, Len(b)))

\* C18: a call of log_utf16(len, ptr) on bytes inside the memory returns, the
\* call goes on, and exactly one entry, the UTF-16 decoding of the bytes, is
\* appended to the logs; nothing else of the context changes.
C18_LogUtf16 ==
    (/\ host.status # "idle" /\ host.last # None /\ host.last[1].name = "log_utf16"
     /\ InRange(host.before.memory, host.last[1].args[2], host.last[1].args[1]))
    => /\ host.status \in {"running", "returned"}
       /\ host.ctx =
              [host.before EXCEPT !.logs =
                  Append(@, C18_Utf16(View(host.before.memory, host.last[1].args[2],
                                           host.last[1].args[1])))]


(* C19 *)
\* C19: every worker in the free set is alive, listed in this.workers, has no
\* task attached and is there once (stated for a pool on which close() was not
\* called).
C19_FreeWorkersSound ==
    ~closed =>
        \A i \in 1..Len(freeWorkers) :
            /\ Alive(thread[freeWorkers[i]])
            /\ freeWorkers[i] \in Listed
            /\ taskInfo[freeWorkers[i]] = None
            /\ \A j \in 1..Len(freeWorkers) : j # i => freeWorkers[j] # freeWorkers[i]


(* C20 *)
\* C20, the timer: an armed timer belongs to the task attached to its worker,
\* and the completion of that task has not been handled.
C20_TimerOfAttachedTask ==
    \A t \in timers :
        /\ taskInfo[t[1]] # None
        /\ taskInfo[t[1]][1].caller = t[2]
        /\ phase[t[2]] \notin {"returned", "threw"}

\* C20: an armed timer belongs to the attached, unfinished task; once a timer
\* has ordered a worker terminated, no task of another caller is attached to
\* that worker; and no caller is rejected by the exit of a worker that the
\* timer of another caller's task ordered terminated (stated for a pool on
\* which close() was not called).
C20_OwnTimerOnly ==
    [][~closed =>
          /\ C20_TimerOfAttachedTask'
          /\ \A f \in fired :
                 /\ (taskInfo'[f[1]] # taskInfo[f[1]] /\ taskInfo'[f[1]] # None)
                    => taskInfo'[f[1]][1].caller = f[2]
                 /\ \A c \in Callers \ {f[2]} :
                        (/\ taskInfo[f[1]] # None /\ taskInfo[f[1]][1].caller = c
                         /\ events[f[1]] # <<>> /\ events'[f[1]] = Tail(events[f[1]]))
                        => promise'[c] = promise[c]
      ]_vars

====
